---- MODULE Spec2Model ----
(***************************************************************************)
(* Model of the nutrition label generator (src/app.py): the value          *)
(* formatter, the text wrapper, the position calculator, the nutrient      *)
(* table renderer, the raster conversion and the batch orchestrator.       *)
(*                                                                         *)
(* Representation.                                                         *)
(*  - A Python str is a sequence of tokens.  A token is one character      *)
(*    ("0", ".", " ", "%") or, for the nutrient names, which the code only *)
(*    ever compares, strips and concatenates as wholes, a whole name       *)
(*    ("Saturated Fat") or the literal "(mg)".  The indentation of a key   *)
(*    is kept as separate " " tokens, so strip() and startswith("  ")      *)
(*    do real work.                                                        *)
(*  - A Python float is an integer count of 1/Scale units (Scale a power   *)
(*    of two, so every modelled amount is an exact binary float and the    *)
(*    round-half-even of the formatting is the one CPython performs), or   *)
(*    the value NaN; value / dv_val * 100 is computed exactly.             *)
(***************************************************************************)
EXTENDS Integers, Sequences, FiniteSets, TLC

\* ------------------------------------------------------------------ bounds
\* amounts 0 .. MaxAmt/Scale are enumerated densely (every 1/Scale step)
MaxAmt == 72
\* amounts 0 .. MaxDvAmt/Scale are enumerated densely for the %DV
MaxDvAmt == 8
\* spacings 0 .. MaxThick and gaps 0 .. MaxGap are enumerated densely
MaxThick == 2
MaxGap == 2
\* texts of at most MaxTextLen characters, wrapped to 0 .. MaxWrapWidth points
MaxTextLen == 7
MaxWrapWidth == 12
\* rows differ from a sample row in at most MaxEdits cells
MaxEdits == 2
\* at most MaxBatch products are selected for a batch
MaxBatch == 3
\* the sliders of the admin panel that stand away from their initial value
MaxMoved == 2




\* ------------------------------------------------------------- numbers
\* fixed-point denominator of the modelled floats
Scale == 32

\* a float: a number n/Scale, or not-a-number
Num(n) == [nan |-> FALSE, n |-> n]
NaN == [nan |-> TRUE, n |-> 0]

\* pd.isna(value)
isna(value) == value.nan

Abs(n) == IF n < 0 THEN -n ELSE n

\* round-half-to-even of num/den (num >= 0, den > 0): the rounding of the
\* ".1f" and ".0f" format specifications
RoundHalfEven(num, den) ==
    LET q == num \div den
        r == num % den
    IN  IF 2 * r < den THEN q
        ELSE IF 2 * r > den THEN q + 1
        ELSE IF q % 2 = 0 THEN q ELSE q + 1

\* ------------------------------------------------------------- strings
DigitChars == <<"0", "1", "2", "3", "4", "5", "6", "7", "8", "9">>

RECURSIVE NatStr(_)
\* str(n) for a natural number n
NatStr(n) ==
    IF n < 10 THEN <<DigitChars[n + 1]>>
    ELSE NatStr(n \div 10) \o <<DigitChars[(n % 10) + 1]>>

\* str(int(value)) for a whole amount: n is a multiple of Scale
IntStr(n) ==
    IF n < 0 THEN <<"-">> \o NatStr((-n) \div Scale)
    ELSE NatStr(n \div Scale)

\* f"{value:.1f}"
Format1f(n) ==
    LET t == RoundHalfEven(Abs(n) * 10, Scale)
    IN  (IF n < 0 THEN <<"-">> ELSE <<>>)
            \o NatStr(t \div 10) \o <<".">> \o <<DigitChars[(t % 10) + 1]>>

RECURSIVE rstrip(_, _)
\* s.rstrip(ch)
rstrip(s, ch) ==
    IF Len(s) > 0 /\ s[Len(s)] = ch THEN rstrip(SubSeq(s, 1, Len(s) - 1), ch)
    ELSE s

RECURSIVE lstrip(_, _)
lstrip(s, ch) ==
    IF Len(s) > 0 /\ s[1] = ch THEN lstrip(Tail(s), ch)
    ELSE s

\* s.strip(): whitespace removed at both ends
strip(s) == rstrip(lstrip(s, " "), " ")

\* ------------------------------------------------------ Value Formatter
format_value_keep_zero(value) ==
    IF isna(value) \/ value.n = 0 THEN <<"0">>
    ELSE Format1f(value.n)

\* NutritionLabelGenerator.format_value
format_value(value) ==
    IF isna(value) \/ value.n = 0 THEN <<"0">>
    ELSE IF value.n % Scale = 0 THEN IntStr(value.n)
    ELSE rstrip(rstrip(Format1f(value.n), "0"), ".")

DAILY_VALUES_sodium_2400 ==
    ( <<"Energy">>             :> 2000 ) @@
    ( <<"Total Fat">>          :> 78   ) @@
    ( <<"Saturated Fat">>      :> 20   ) @@
    ( <<"Cholesterol">>        :> 300  ) @@
    ( <<"Sodium", "(mg)">>     :> 2400 ) @@
    ( <<"Total Carbohydrate">> :> 275  ) @@
    ( <<"Dietary Fiber">>      :> 28   ) @@
    ( <<"Added Sugars">>       :> 50   ) @@
    ( <<"Protein">>            :> 50   ) @@
    ( <<"Vitamin D">>          :> 20   ) @@
    ( <<"Calcium">>            :> 1300 ) @@
    ( <<"Iron">>               :> 18   ) @@
    ( <<"Potassium">>          :> 4700 )

\* Config.DAILY_VALUES
DAILY_VALUES ==
    ( <<"Energy">>             :> 2000 ) @@
    ( <<"Total Fat">>          :> 78   ) @@
    ( <<"Saturated Fat">>      :> 20   ) @@
    ( <<"Cholesterol">>        :> 300  ) @@
    ( <<"Sodium", "(mg)">>     :> 2300 ) @@
    ( <<"Total Carbohydrate">> :> 275  ) @@
    ( <<"Dietary Fiber">>      :> 28   ) @@
    ( <<"Added Sugars">>       :> 50   ) @@
    ( <<"Protein">>            :> 50   ) @@
    ( <<"Vitamin D">>          :> 20   ) @@
    ( <<"Calcium">>            :> 1300 ) @@
    ( <<"Iron">>               :> 18   ) @@
    ( <<"Potassium">>          :> 4700 )

calculate_percent_dv_default(nutrient, value) ==
    LET key    == strip(nutrient)
        dv_val == IF key \in DOMAIN DAILY_VALUES THEN DAILY_VALUES[key] ELSE 100
    IN  IF dv_val = 0 \/ isna(value) \/ value.n <= 0 THEN <<>>
        ELSE IF value.n * 100 < dv_val * Scale THEN <<"<", "1", "%">>
        ELSE NatStr(RoundHalfEven(value.n * 100, dv_val * Scale)) \o <<"%">>

\* NutritionLabelGenerator.calculate_percent_dv; None (no reference value)
\* is modelled as 0, which "not dv_val" treats the same way
calculate_percent_dv(nutrient, value) ==
    LET key    == strip(nutrient)
        dv_val == IF key \in DOMAIN DAILY_VALUES THEN DAILY_VALUES[key] ELSE 0
    IN  IF dv_val = 0 \/ isna(value) \/ value.n <= 0 THEN <<>>
        ELSE IF value.n * 100 < dv_val * Scale THEN <<"<", "1", "%">>
        ELSE NatStr(RoundHalfEven(value.n * 100, dv_val * Scale)) \o <<"%">>

\* ------------------------------------------------------------- state
VARIABLES
    fv_value,    \* format_value: the amount of the last call
    fv_result,   \* format_value: its return value
    dv_key,      \* calculate_percent_dv: the key of the last call
    dv_value,    \* calculate_percent_dv: the amount of the last call
    dv_result,   \* calculate_percent_dv: its return value
    dv_prev,     \* the call before it, <<[value, result]>>, when it had the
                 \* same key; else <<>>
    lp,          \* _calculate_positions: the parameter set p of the last call
    positions,   \* _calculate_positions: the anchors it returned
    wt_text,     \* wrap_text: the text
    wt_max,      \* wrap_text: max_width, in points
    wt_pc,       \* wrap_text: "call" before the call, "done" after it
    wt_lines,    \* wrap_text: the lines returned
    rd_row,      \* render: the DataFrame row of the product
    rd_p,        \* render: the design parameters of the generator
    rd_pc,       \* render: "call", then "done" or "error" (an exception)
    rd_data,     \* render: the dict prepare_data returned
    rd_out,      \* render: what _draw_nutrients drew
    png_env,     \* create_png: the installation and what the converter does
    png_pc,      \* create_png: "call" before the call, "done" after it
    png_result,  \* create_png: the image, or the exception raised
    bt_products, \* create_batch_labels: the products selected
    bt_format,   \* create_batch_labels: format_type
    bt_i,        \* create_batch_labels: the index of the next product
    bt_zip,      \* create_batch_labels: the entries written to the archive
    bt_warnings, \* create_batch_labels: the st.warning calls made
    bt_png,      \* what create_png did for each product processed
    bt_pc,       \* create_batch_labels: "loop", then "done"
    bt_return,   \* create_batch_labels: the value returned
    ss_is_admin,      \* st.session_state.is_admin
    ss_design_params, \* st.session_state.design_params, None or <<params>>
    ss_rerun,         \* st.rerun() was called: the script runs again at once
    ad_sliders,       \* admin_panel: the values the sliders stand at
    up_result         \* user_panel: what the last run of it showed

vars == <<fv_value, fv_result, dv_key, dv_value, dv_result, dv_prev,
          lp, positions, wt_text, wt_max, wt_pc, wt_lines,
          rd_row, rd_p, rd_pc, rd_data, rd_out,
          png_env, png_pc, png_result,
          bt_products, bt_format, bt_i, bt_zip, bt_warnings, bt_png, bt_pc,
          bt_return,
          ss_is_admin, ss_design_params, ss_rerun, ad_sliders, up_result>>

value_vars == <<fv_value, fv_result, dv_key, dv_value, dv_result, dv_prev>>
layout_vars == <<lp, positions>>
wrap_vars == <<wt_text, wt_max, wt_pc, wt_lines>>
render_vars == <<rd_row, rd_p, rd_pc, rd_data, rd_out>>
png_vars == <<png_env, png_pc, png_result>>
batch_vars ==
    <<bt_products, bt_format, bt_i, bt_zip, bt_warnings, bt_png, bt_pc,
      bt_return>>
session_vars ==
    <<ss_is_admin, ss_design_params, ss_rerun, ad_sliders, up_result>>

\* ----------------------------------------------------- Value Formatter
\* amounts handed to format_value: NaN, every 1/Scale step of
\* -MaxAmt/Scale .. MaxAmt/Scale, and the neighbourhoods of 10 and 100
FvAmounts ==
    {NaN} \cup {Num(n) : n \in (-MaxAmt) .. MaxAmt}
          \cup {Num(10 * Scale + d) : d \in {-1, 0, 1, 8}}
          \cup {Num(100 * Scale + d) : d \in {-1, 0, 1, 16}}

\* one call of format_value
FormatValue ==
    \E value \in FvAmounts :
        /\ fv_value' = value
        /\ fv_result' = format_value(value)
        /\ UNCHANGED <<dv_key, dv_value, dv_result, dv_prev>>
        /\ UNCHANGED <<layout_vars, wrap_vars, render_vars, png_vars, batch_vars, session_vars>>

\* the keys of the nutrient table, as _draw_nutrients spells them
nutrient_order ==
    << <<"Total Fat">>, <<" ", " ", "Saturated Fat">>, <<" ", " ", " ", "Trans Fat">>,
       <<"Cholesterol">>, <<"Sodium", "(mg)">>, <<"Total Carbohydrate">>,
       <<" ", " ", "Dietary Fiber">>, <<" ", " ", "Total Sugars">>,
       <<" ", " ", " ", "Added Sugars">>, <<"Protein">>, <<"Vitamin D">>,
       <<"Calcium">>, <<"Iron">>, <<"Potassium">> >>

Range(f) == {f[i] : i \in DOMAIN f}

\* keys handed to calculate_percent_dv: the keys the renderer passes, the
\* energy key, bare and padded names, and names outside the table
DvKeys ==
    Range(nutrient_order)
        \cup { <<"Energy">>, <<"Sodium">>, <<"Saturated Fat">>, <<"Trans Fat">>,
               <<"Protein", " ">>, <<"Fibre">> }

\* amounts handed to calculate_percent_dv
DvAmounts ==
    {NaN, Num(-Scale)} \cup {Num(n) : n \in 0 .. MaxDvAmt}
        \cup {Num(16), Num(48)}
        \cup {Num(k * Scale) : k \in {1, 10, 20, 23, 78, 2300, 4700}}

\* one call of calculate_percent_dv
CalculatePercentDV ==
    \E nutrient \in DvKeys, value \in DvAmounts :
        /\ dv_key' = nutrient
        /\ dv_value' = value
        /\ dv_result' = calculate_percent_dv(nutrient, value)
        /\ dv_prev' = IF dv_key = nutrient
                      THEN <<[value |-> dv_value, result |-> dv_result]>>
                      ELSE <<>>
        /\ UNCHANGED <<fv_value, fv_result>>
        /\ UNCHANGED <<layout_vars, wrap_vars, render_vars, png_vars, batch_vars, session_vars>>

\* -------------------------------------------------- Position Calculator
\* get_default_design_params
get_default_design_params ==
    [ width |-> 270, height |-> 370,
      line_thick |-> 3, line_thin |-> 0,
      font_header |-> 27, font_subheader |-> 13,
      font_nutrient |-> 10, font_footnote |-> 7,
      header_spacing |-> 2, nutrient_leading |-> 17,
      thick_spacing |-> 8, thin_offset |-> 5,
      nutrients_gap |-> 33, footnote_start |-> 35,
      footnote_spacing |-> 8 ]

_calculate_positions_sign_slip(p) ==
    LET header       == p.height - 10 - p.font_header
        header_sep   == header - p.thick_spacing
        serving      == header_sep - 20
        serving_note == serving - 12
        serving_sep  == serving_note + 6
        energy       == serving_sep - 20
        energy_sep   == energy - p.thick_spacing
    IN  [ header |-> header, header_sep |-> header_sep, serving |-> serving,
          serving_note |-> serving_note, serving_sep |-> serving_sep,
          energy |-> energy, energy_sep |-> energy_sep,
          nutrients_start |-> energy_sep - p.nutrients_gap ]

\* NutritionLabelGenerator._calculate_positions
_calculate_positions(p) ==
    LET header       == p.height - 10 - p.font_header
        header_sep   == header - p.thick_spacing
        serving      == header_sep - 20
        serving_note == serving - 12
        serving_sep  == serving_note - 6
        energy       == serving_sep - 20
        energy_sep   == energy - p.thick_spacing
    IN  [ header |-> header, header_sep |-> header_sep, serving |-> serving,
          serving_note |-> serving_note, serving_sep |-> serving_sep,
          energy |-> energy, energy_sep |-> energy_sep,
          nutrients_start |-> energy_sep - p.nutrients_gap ]

\* parameter sets handed to _calculate_positions: the defaults with the
\* fields it reads, and the thin line width (0 by default), varied from the
\* smallest values up, zero included, and at their defaults and maxima
LayoutInputs ==
    { [get_default_design_params EXCEPT
            !.height = h, !.font_header = fh, !.thick_spacing = ts,
            !.nutrients_gap = ng, !.line_thin = lt] :
        h \in {1, 370, 800}, fh \in {1, 27, 36},
        ts \in (0 .. MaxThick) \cup {8, 15},
        ng \in (0 .. MaxGap) \cup {33, 50},
        lt \in {0, 1} }

\* one call of _calculate_positions
CalculatePositions ==
    \E p \in LayoutInputs :
        /\ lp' = p
        /\ positions' = _calculate_positions(p)
        /\ UNCHANGED <<value_vars, wrap_vars, render_vars, png_vars, batch_vars, session_vars>>

\* --------------------------------------------------- Text Layout Helper
\* the glyph widths of Helvetica in 1/1000 of the font size, for the three
\* characters of the modelled alphabet: a narrow letter, a wide letter and
\* the space
GlyphWidth(ch) ==
    CASE ch = "i" -> 222
      [] ch = "W" -> 944
      [] ch = " " -> 278

RECURSIVE GlyphSum(_)
GlyphSum(s) == IF s = <<>> THEN 0 ELSE GlyphWidth(s[1]) + GlyphSum(Tail(s))

\* c.stringWidth(s, font_name, font_size), in 1/1000 points
stringWidth(s, font_size) == GlyphSum(s) * font_size

RECURSIVE SplitFrom(_, _, _)
\* the words of text[i..], cur being the word under construction
SplitFrom(text, i, cur) ==
    IF i > Len(text) THEN (IF cur = <<>> THEN <<>> ELSE <<cur>>)
    ELSE IF text[i] = " "
         THEN (IF cur = <<>> THEN <<>> ELSE <<cur>>) \o SplitFrom(text, i + 1, <<>>)
         ELSE SplitFrom(text, i + 1, Append(cur, text[i]))

\* text.split()
split(text) == SplitFrom(text, 1, <<>>)

RECURSIVE WrapFrom_word_width(_, _, _, _, _, _)
WrapFrom_word_width(words, i, lines, current_line, max_width, font_size) ==
    IF i > Len(words)
    THEN (IF current_line # <<>> THEN Append(lines, current_line) ELSE lines)
    ELSE LET word      == words[i]
             test_line == strip(current_line \o <<" ">> \o word)
             width     == stringWidth(word, font_size)
         IN  IF width <= max_width * 1000
             THEN WrapFrom_word_width(words, i + 1, lines, test_line,
                                      max_width, font_size)
             ELSE WrapFrom_word_width(words, i + 1,
                        IF current_line # <<>> THEN Append(lines, current_line)
                        ELSE lines,
                        word, max_width, font_size)

RECURSIVE WrapFrom(_, _, _, _, _, _)
\* the loop of wrap_text from word i on, and the code after the loop
WrapFrom(words, i, lines, current_line, max_width, font_size) ==
    IF i > Len(words)
    THEN (IF current_line # <<>> THEN Append(lines, current_line) ELSE lines)
    ELSE LET word      == words[i]
             test_line == strip(current_line \o <<" ">> \o word)
             width     == stringWidth(test_line, font_size)
         IN  IF width <= max_width * 1000
             THEN WrapFrom(words, i + 1, lines, test_line, max_width, font_size)
             ELSE WrapFrom(words, i + 1,
                        IF current_line # <<>> THEN Append(lines, current_line)
                        ELSE lines,
                        word, max_width, font_size)

\* NutritionLabelGenerator.wrap_text
wrap_text(text, max_width, font_size) ==
    WrapFrom(split(text), 1, <<>>, <<>>, max_width, font_size)

RECURSIVE TextsOfLen(_)
TextsOfLen(n) ==
    IF n = 0 THEN {<<>>}
    ELSE {Append(t, ch) : t \in TextsOfLen(n - 1), ch \in {"i", "W", " "}}

\* the texts handed to wrap_text
WrapTexts == UNION {TextsOfLen(n) : n \in 0 .. MaxTextLen}

\* one call of wrap_text, with the footnote font size of the defaults
WrapText ==
    /\ wt_pc = "call"
    /\ wt_lines' = wrap_text(wt_text, wt_max, get_default_design_params.font_footnote)
    /\ wt_pc' = "done"
    /\ UNCHANGED <<wt_text, wt_max, value_vars, layout_vars, render_vars, png_vars, session_vars>>
    /\ UNCHANGED batch_vars

\* ------------------------------------------------------- the data source
\* a cell of a DataFrame row: a number, NaN (an empty cell), a text that is
\* no number, or no cell at all because the sheet has no such column
NumCell(n) == [kind |-> "num", n |-> n]
NaNCell    == [kind |-> "nan", n |-> 0]
TextCell   == [kind |-> "text", n |-> 0]
Absent     == [kind |-> "absent", n |-> 0]

\* pd.notna(row[column])
notna(cell) == cell.kind # "nan"

\* the nutrient columns user_panel requires, Energy included
required_nutrients ==
    << <<"Energy">>, <<"Total Fat">>, <<"Saturated Fat">>, <<"Trans Fat">>,
       <<"Cholesterol">>, <<"Sodium", "(mg)">>, <<"Total Carbohydrate">>,
       <<"Dietary Fiber">>, <<"Total Sugars">>, <<"Added Sugars">>,
       <<"Protein">> >>

\* the key of the dict under which prepare_data stores a required column
data_key(column) ==
    CASE column = <<"Saturated Fat">> -> <<" ", " ", "Saturated Fat">>
      [] column = <<"Trans Fat">>     -> <<" ", " ", " ", "Trans Fat">>
      [] column = <<"Dietary Fiber">> -> <<" ", " ", "Dietary Fiber">>
      [] column = <<"Total Sugars">>  -> <<" ", " ", "Total Sugars">>
      [] column = <<"Added Sugars">>  -> <<" ", " ", " ", "Added Sugars">>
      [] OTHER -> column

optional_nutrients ==
    << <<"Vitamin D">>, <<"Calcium">>, <<"Iron">>, <<"Potassium">> >>

footnote_columns == << <<"Footnote">>, <<"Footnote2">> >>

Columns ==
    Range(required_nutrients) \cup Range(optional_nutrients)
        \cup Range(footnote_columns)

\* prepare_data: ok is FALSE when float() raises on a cell that is no
\* number.  values is the nutrient part of the dict, footnotes the two
\* footnote entries: the cell of the row, or a text (the default) when the
\* row has no such column.
prepare_data(row) ==
    LET req == Range(required_nutrients)
        opt == {c \in Range(optional_nutrients) :
                    row[c].kind # "absent" /\ notna(row[c])}
        key_of == [c \in req \cup opt |-> data_key(c)]
        col_of(k) == CHOOSE c \in req \cup opt : key_of[c] = k
    IN  [ ok |-> \A c \in req \cup opt : row[c].kind # "text",
          values |->
            [k \in {key_of[c] : c \in req \cup opt} |->
                LET cell == row[col_of(k)]
                IN  IF cell.kind = "num" THEN Num(cell.n) ELSE Num(0)],
          footnotes |->
            [c \in Range(footnote_columns) |->
                IF row[c].kind = "absent" THEN TextCell ELSE row[c]] ]

\* ------------------------------------------------------- Label Renderer
row_skipped_zero(data, nutrient) ==
    \/ nutrient \notin DOMAIN data.values
    \/ isna(data.values[nutrient])
    \/ data.values[nutrient].n = 0

\* _draw_nutrients, the test that skips a row
row_skipped(data, nutrient) ==
    \/ nutrient \notin DOMAIN data.values
    \/ isna(data.values[nutrient])

\* nutrient.startswith("  ")
startswith2(s) == Len(s) >= 2 /\ s[1] = " " /\ s[2] = " "

\* _draw_nutrients, font selection
row_font(nutrient) ==
    IF startswith2(nutrient) THEN "Helvetica" ELSE "Helvetica-Bold"

\* _draw_nutrients, unit determination
row_unit(nutrient) ==
    IF nutrient \in { <<"Cholesterol">>, <<"Sodium", "(mg)">>, <<"Calcium">>,
                      <<"Iron">>, <<"Potassium">> }
    THEN "mg"
    ELSE IF nutrient = <<"Vitamin D">> THEN "mcg"
    ELSE "g"

\* s.replace("(mg)", "")
remove_mg(s) == SelectSeq(s, LAMBDA tok : tok # "(mg)")

\* the label of a row, if the indentation were stripped from the name
row_label_stripped(nutrient, val_str, unit) ==
    lstrip(remove_mg(nutrient), " ") \o <<" ">> \o val_str \o <<unit>>

\* _draw_nutrients, the label of a row
row_label(nutrient, val_str, unit) ==
    remove_mg(nutrient) \o <<" ">> \o val_str \o <<unit>>

\* the separator test, if it left out the last two rows of nutrient_order
row_separator_last_two(nutrient) == nutrient \notin { <<"Iron">>, <<"Potassium">> }

\* _draw_nutrients, the test for the thin separator under a row
row_separator(nutrient) == nutrient \notin { <<"Protein">>, <<"Potassium">> }

\* draw_row, if no %DV were computed for the keys indented by three spaces
draw_row_top_levels(data, nutrient, y_pos, p) ==
    LET value   == data.values[nutrient]
        unit    == row_unit(nutrient)
        val_str == format_value(value)
    IN  [ nutrient |-> nutrient,
          y        |-> y_pos,
          font     |-> row_font(nutrient),
          val_str  |-> val_str,
          label    |-> row_label(nutrient, val_str, unit),
          percent  |-> IF Len(nutrient) >= 3 /\ SubSeq(nutrient, 1, 3) = <<" ", " ", " ">>
                       THEN <<>>
                       ELSE calculate_percent_dv(nutrient, value),
          sep      |-> row_separator(nutrient),
          sep_y    |-> y_pos - p.thin_offset ]

\* the body of the loop of _draw_nutrients for one nutrient that is drawn
draw_row(data, nutrient, y_pos, p) ==
    LET value   == data.values[nutrient]
        unit    == row_unit(nutrient)
        val_str == format_value(value)
    IN  [ nutrient |-> nutrient,
          y        |-> y_pos,
          font     |-> row_font(nutrient),
          val_str  |-> val_str,
          label    |-> row_label(nutrient, val_str, unit),
          percent  |-> calculate_percent_dv(nutrient, value),
          sep      |-> row_separator(nutrient),
          sep_y    |-> y_pos - p.thin_offset ]

RECURSIVE draw_rows(_, _, _, _, _)
\* the loop of _draw_nutrients from nutrient i on: the rows drawn, and the
\* last one is followed by the final value of y_pos
draw_rows(data, i, y_pos, p, rows) ==
    IF i > Len(nutrient_order) THEN [rows |-> rows, y_pos |-> y_pos]
    ELSE IF row_skipped(data, nutrient_order[i])
         THEN draw_rows(data, i + 1, y_pos, p, rows)
         ELSE draw_rows(data, i + 1, y_pos - p.nutrient_leading, p,
                        Append(rows, draw_row(data, nutrient_order[i], y_pos, p)))

\* _draw_nutrients, if the final thick rule were drawn at the cursor
_draw_nutrients_rule_at_cursor(data, y_positions, p) ==
    LET start == y_positions.nutrients_start
        loop  == draw_rows(data, 1, start, p, <<>>)
    IN  [ dv_header_y  |-> start + p.nutrient_leading,
          dv_rule_y    |-> start + p.nutrient_leading - p.thin_offset,
          rows         |-> loop.rows,
          y_pos        |-> loop.y_pos,
          final_rule_y |-> loop.y_pos ]

\* NutritionLabelGenerator._draw_nutrients: the "% Daily Value *" header and
\* its rule, the rows, and the final thick rule
_draw_nutrients(data, y_positions, p) ==
    LET start == y_positions.nutrients_start
        loop  == draw_rows(data, 1, start, p, <<>>)
    IN  [ dv_header_y  |-> start + p.nutrient_leading,
          dv_rule_y    |-> start + p.nutrient_leading - p.thin_offset,
          rows         |-> loop.rows,
          y_pos        |-> loop.y_pos,
          final_rule_y |-> loop.y_pos + p.nutrient_leading - p.thin_offset ]

\* _draw_footnotes raises when a footnote is no text: wrap_text calls
\* text.split() on it, and "if data['Footnote2']" lets a NaN through
footnotes_ok(data) ==
    \A c \in Range(footnote_columns) : data.footnotes[c].kind = "text"

\* the first sample product of main and, with the optional nutrients and
\* footnotes, the second
SampleRow1 ==
    ( <<"Energy">> :> NumCell(150 * Scale) ) @@
    ( <<"Total Fat">> :> NumCell(8 * Scale) ) @@
    ( <<"Saturated Fat">> :> NumCell(3 * Scale) ) @@
    ( <<"Trans Fat">> :> NumCell(0) ) @@
    ( <<"Cholesterol">> :> NumCell(25 * Scale) ) @@
    ( <<"Sodium", "(mg)">> :> NumCell(580 * Scale) ) @@
    ( <<"Total Carbohydrate">> :> NumCell(15 * Scale) ) @@
    ( <<"Dietary Fiber">> :> NumCell(3 * Scale) ) @@
    ( <<"Total Sugars">> :> NumCell(5 * Scale) ) @@
    ( <<"Added Sugars">> :> NumCell(2 * Scale) ) @@
    ( <<"Protein">> :> NumCell(8 * Scale) ) @@
    ( <<"Vitamin D">> :> Absent ) @@ ( <<"Calcium">> :> Absent ) @@
    ( <<"Iron">> :> Absent ) @@ ( <<"Potassium">> :> Absent ) @@
    ( <<"Footnote">> :> Absent ) @@ ( <<"Footnote2">> :> Absent )

SampleRow2 ==
    ( <<"Energy">> :> NumCell(200 * Scale) ) @@
    ( <<"Total Fat">> :> NumCell(12 * Scale) ) @@
    ( <<"Saturated Fat">> :> NumCell(4 * Scale + Scale \div 2) ) @@
    ( <<"Trans Fat">> :> NumCell(0) ) @@
    ( <<"Cholesterol">> :> NumCell(30 * Scale) ) @@
    ( <<"Sodium", "(mg)">> :> NumCell(650 * Scale) ) @@
    ( <<"Total Carbohydrate">> :> NumCell(18 * Scale) ) @@
    ( <<"Dietary Fiber">> :> NumCell(2 * Scale) ) @@
    ( <<"Total Sugars">> :> NumCell(8 * Scale) ) @@
    ( <<"Added Sugars">> :> NumCell(6 * Scale) ) @@
    ( <<"Protein">> :> NumCell(10 * Scale) ) @@
    ( <<"Vitamin D">> :> NumCell(2 * Scale) ) @@
    ( <<"Calcium">> :> NumCell(260 * Scale) ) @@
    ( <<"Iron">> :> NumCell(8 * Scale) ) @@
    ( <<"Potassium">> :> NumCell(240 * Scale) ) @@
    ( <<"Footnote">> :> TextCell ) @@ ( <<"Footnote2">> :> TextCell )

\* what a cell of a column can be instead: an optional column can be
\* missing from the sheet, a nutrient cell can be empty, zero or no number,
\* a footnote cell can be empty or a text
CellChoices(c) ==
    (IF c \in Range(required_nutrients) THEN {} ELSE {Absent})
        \cup {NaNCell, TextCell}
        \cup (IF c \in Range(footnote_columns) THEN {} ELSE {NumCell(0)})

\* the number of cells in which two rows differ
Distance(row, base) == Cardinality({c \in Columns : row[c] # base[c]})

\* the rows that are rendered: the sample rows with up to MaxEdits cells
\* changed
IsRowInput(row) ==
    \E base \in {SampleRow1, SampleRow2} : Distance(row, base) <= MaxEdits

\* load_data_from_google_sheets returns the sheet as it now is: a cell of
\* the product's row has changed since the last run of the script
EditSheet ==
    /\ rd_pc = "call"
    /\ \E c \in Columns :
        \E cell \in CellChoices(c) :
            /\ IsRowInput([rd_row EXCEPT ![c] = cell])
            /\ rd_row' = [rd_row EXCEPT ![c] = cell]
    /\ UNCHANGED <<rd_p, rd_pc, rd_data, rd_out>>
    /\ UNCHANGED <<value_vars, layout_vars, wrap_vars, png_vars, batch_vars, session_vars>>


\* the design parameters a generator is built with: the defaults, and a
\* set with the tightest leading and no thin-line offset
RenderParams ==
    { get_default_design_params,
      [get_default_design_params EXCEPT !.nutrient_leading = 10,
                                        !.thin_offset = 0] }

NoData == [ok |-> FALSE, values |-> << >>, footnotes |-> << >>]
NoOutput ==
    [dv_header_y |-> 0, dv_rule_y |-> 0, rows |-> <<>>, y_pos |-> 0,
     final_rule_y |-> 0]

\* create_pdf on prepare_data(row), as user_panel and create_batch_labels
\* call them: the nutrient table is drawn unless prepare_data raised, and
\* the document is complete unless _draw_footnotes raised after it
Render ==
    /\ rd_pc = "call"
    /\ LET data == prepare_data(rd_row)
       IN  IF ~data.ok
           THEN /\ rd_pc' = "error"
                /\ UNCHANGED <<rd_data, rd_out>>
           ELSE /\ rd_data' = data
                /\ rd_out' = _draw_nutrients(data, _calculate_positions(rd_p), rd_p)
                /\ rd_pc' = IF footnotes_ok(data) THEN "done" ELSE "error"
    /\ UNCHANGED <<rd_row, rd_p, value_vars, layout_vars, wrap_vars, png_vars, session_vars>>
    /\ UNCHANGED batch_vars

\* ----------------------------------------------------- Raster Converter
\* Config.POPPLER_PATH
POPPLER_PATH == "C:\\poppler\\Library\\bin"

\* find_poppler_path, the installation paths it tries in order
common_paths ==
    << "/usr/bin", "/usr/local/bin", "C:\\poppler\\Library\\bin",
       "C:\\Program Files\\poppler\\bin" >>

\* a directory outside common_paths that can be on the PATH
OtherDir == "/opt/poppler/bin"

NoPath == "None"

\* the machine: dirs are the directories that hold a pdftoppm executable,
\* which is the one of them shutil.which finds on the PATH, or NoPath
PngInstalls ==
    { [dirs |-> d, which |-> w] :
        d \in SUBSET (Range(common_paths) \cup {OtherDir}),
        w \in {NoPath} \cup Range(common_paths) \cup {OtherDir} }

\* os.path.exists(os.path.join(path, "pdftoppm" + exe_ext))
pdftoppm_exists(install, path) == path \in install.dirs

RECURSIVE first_common(_, _)
first_common(install, i) ==
    IF i > Len(common_paths) THEN NoPath
    ELSE IF pdftoppm_exists(install, common_paths[i]) THEN common_paths[i]
    ELSE first_common(install, i + 1)

\* find_poppler_path
find_poppler_path(install) ==
    IF install.which # NoPath THEN install.which
    ELSE first_common(install, 1)

\* what one call of convert_from_bytes does: it returns a list of images,
\* possibly empty, or raises.  An error has a cause (the backend could not
\* be located, or anything else) and a message, of which the code looks at
\* one thing: whether it contains "poppler" or "pdftoppm".  tag tells the
\* errors of the two attempts apart.
Images(tag)      == [kind |-> "images", cause |-> "none", mentions |-> FALSE, tag |-> tag]
NoImages(tag)    == [kind |-> "empty", cause |-> "none", mentions |-> FALSE, tag |-> tag]
Error(c, m, tag) == [kind |-> "error", cause |-> c, mentions |-> m, tag |-> tag]
NoError          == [kind |-> "none", cause |-> "none", mentions |-> FALSE, tag |-> "none"]

\* the backend can be located through poppler_path, or through the PATH
\* when poppler_path is None
locatable(install, poppler_path) ==
    IF poppler_path = NoPath THEN install.which # NoPath
    ELSE pdftoppm_exists(install, poppler_path)

\* what convert_from_bytes can do with poppler_path on this machine: without
\* a backend it raises the error of pdf2image, whose message asks whether
\* poppler is installed; with one it converts, or fails for another reason
\* with a message that may or may not name poppler
convert_from_bytes(install, poppler_path, tag) ==
    IF ~locatable(install, poppler_path)
    THEN {Error("not_located", TRUE, tag)}
    ELSE {Images(tag), NoImages(tag)}
            \cup {Error("other", m, tag) : m \in BOOLEAN}

\* create_png, lines 281-293: the poppler_path of the first attempt
first_path(install) ==
    LET poppler_path == IF POPPLER_PATH = NoPath THEN find_poppler_path(install)
                        ELSE POPPLER_PATH
    IN  IF poppler_path # NoPath /\ ~pdftoppm_exists(install, poppler_path)
        THEN find_poppler_path(install)
        ELSE poppler_path

\* the exceptions create_png raises, told apart by their message:
\*   "Unavailable"    "PNG conversion failed: Poppler not found. ... Error: <msg>"
\*   "Failed"         "PNG conversion failed: <msg>"
\*   "MissingLibrary" "pdf2image library is required for PNG export. ..."
\* error is the exception whose message <msg> is
Raised(kind, error, attempts) ==
    [kind |-> kind, error |-> error, attempts |-> attempts]

\* create_png, lines 326-330
classify(e, attempts) ==
    IF e.mentions THEN Raised("Unavailable", e, attempts)
    ELSE Raised("Failed", e, attempts)

\* create_png, lines 316-322
save_png(images, attempts) ==
    IF images.kind = "images" THEN Raised("png", NoError, attempts)
    ELSE classify(Error("no_images", FALSE, images.tag), attempts)

\* create_png, if the handler of the second attempt raised the error it
\* caught instead of the error of the first attempt
create_png_second_error(env) ==
    IF ~env.pdf_ok THEN classify(Error("pdf", FALSE, "pdf"), <<>>)
    ELSE IF ~env.import_ok THEN Raised("MissingLibrary", NoError, <<>>)
    ELSE LET poppler_path == first_path(env.install)
         IN  IF env.try1.kind # "error"
             THEN save_png(env.try1, <<poppler_path>>)
             ELSE IF poppler_path # NoPath
                  THEN IF env.try2.kind # "error"
                       THEN save_png(env.try2, <<poppler_path, NoPath>>)
                       ELSE classify(env.try2, <<poppler_path, NoPath>>)
                  ELSE classify(env.try1, <<poppler_path>>)

\* NutritionLabelGenerator.create_png.  env: pdf_ok (create_pdf returns),
\* import_ok (pdf2image can be imported), install, and try1 and try2, what the
\* first and the second call of convert_from_bytes do
create_png(env) ==
    IF ~env.pdf_ok THEN classify(Error("pdf", FALSE, "pdf"), <<>>)
    ELSE IF ~env.import_ok THEN Raised("MissingLibrary", NoError, <<>>)
    ELSE LET poppler_path == first_path(env.install)
         IN  IF env.try1.kind # "error"
             THEN save_png(env.try1, <<poppler_path>>)
             ELSE IF poppler_path # NoPath
                  THEN IF env.try2.kind # "error"
                       THEN save_png(env.try2, <<poppler_path, NoPath>>)
                       ELSE classify(env.try1, <<poppler_path, NoPath>>)
                  ELSE classify(env.try1, <<poppler_path>>)

\* the environments of a call of create_png on one of the machines
PngEnvsOn(installs) ==
    UNION { { [pdf_ok |-> po, import_ok |-> io, install |-> ins,
               try1 |-> t1, try2 |-> t2] :
                po \in BOOLEAN, io \in BOOLEAN,
                t1 \in convert_from_bytes(ins, first_path(ins), "first"),
                t2 \in convert_from_bytes(ins, NoPath, "second") } :
            ins \in installs }

\* the environments of a call of create_png
PngEnvs == PngEnvsOn({i \in PngInstalls : i.which \in {NoPath} \cup i.dirs})

\* one call of create_png
CreatePng ==
    /\ png_pc = "call"
    /\ png_result' = create_png(png_env)
    /\ png_pc' = "done"
    /\ UNCHANGED <<png_env, value_vars, layout_vars, wrap_vars, render_vars, session_vars>>
    /\ UNCHANGED batch_vars

\* --------------------------------------------------- Batch Orchestrator
\* the sheet: four products.  Two are sound; one has a text in a number
\* cell, so that prepare_data raises; one has a Footnote column with an
\* empty cell, so that create_pdf raises.
df ==
    ( <<"A">> :> SampleRow1 ) @@
    ( <<"B", "/", "2">> :> SampleRow2 ) @@
    ( <<"C", " ">> :> [SampleRow1 EXCEPT ![<<"Energy">>] = TextCell] ) @@
    ( <<"D", "_", "4">> :> [SampleRow2 EXCEPT ![<<"Footnote">>] = NaNCell] )

\* c.isalnum() or c in (' ', '-', '_'), for the characters of the names
safe_char(c) == c \in {"A", "B", "C", "D", "2", "4", " ", "-", "_"}

\* create_batch_labels, the file name of a product
safe_name(product) == strip(SelectSeq(product, safe_char))

\* create_pdf returns (it raises only in _draw_footnotes)
create_pdf_ok(data) == footnotes_ok(data)

Entry(i, product, ext) ==
    [index |-> i, name |-> safe_name(product) \o <<ext>>, ext |-> ext]
Warning(i, kind) == [index |-> i, kind |-> kind]

\* what one iteration did: entries written, warnings made, and kind of the
\* result of create_png ("none" when it was not called)
Iteration(entries, warnings, png) ==
    [entries |-> entries, warnings |-> warnings, png |-> png]

process_product_retry_png(i, product, format_type, convert) ==
    LET row  == df[product]
        data == prepare_data(row)
        env  == [convert EXCEPT !.pdf_ok = data.ok /\ create_pdf_ok(data)]
        png  == create_png(env)
    IN  IF ~data.ok THEN Iteration(<<>>, <<Warning(i, "label")>>, "none")
        ELSE IF format_type = "pdf"
             THEN IF create_pdf_ok(data)
                  THEN Iteration(<<Entry(i, product, ".pdf")>>, <<>>, "none")
                  ELSE Iteration(<<>>, <<Warning(i, "label")>>, "none")
             ELSE Iteration(
                    (IF format_type = "both" /\ create_pdf_ok(data)
                     THEN <<Entry(i, product, ".pdf")>> ELSE <<>>)
                        \o (IF png.kind = "png"
                            THEN <<Entry(i, product, ".png")>> ELSE <<>>),
                    (IF format_type = "both" /\ ~create_pdf_ok(data)
                     THEN <<Warning(i, "label")>> ELSE <<>>)
                        \o (IF png.kind = "png" THEN <<>>
                            ELSE <<Warning(i, "png")>>),
                    png.kind)

process_product_png_first(i, product, format_type, convert) ==
    LET row  == df[product]
        data == prepare_data(row)
        env  == [convert EXCEPT !.pdf_ok = data.ok /\ create_pdf_ok(data)]
        png  == create_png(env)
    IN  IF ~data.ok THEN Iteration(<<>>, <<Warning(i, "label")>>, "none")
        ELSE IF format_type = "pdf"
             THEN IF create_pdf_ok(data)
                  THEN Iteration(<<Entry(i, product, ".pdf")>>, <<>>, "none")
                  ELSE Iteration(<<>>, <<Warning(i, "label")>>, "none")
             ELSE IF png.kind # "png"
                  THEN Iteration(<<>>, <<Warning(i, "label")>>, png.kind)
                  ELSE Iteration(
                        <<Entry(i, product, ".png")>>
                            \o (IF format_type = "both"
                                THEN <<Entry(i, product, ".pdf")>> ELSE <<>>),
                        <<>>, png.kind)

\* create_batch_labels, the body of the loop for the i-th product; convert
\* is what the converter does when create_png is called
process_product(i, product, format_type, convert) ==
    LET row  == df[product]
        data == prepare_data(row)
        env  == [convert EXCEPT !.pdf_ok = data.ok /\ create_pdf_ok(data)]
        png  == create_png(env)
    IN  IF ~data.ok THEN Iteration(<<>>, <<Warning(i, "label")>>, "none")
        ELSE IF format_type \in {"pdf", "both"} /\ ~create_pdf_ok(data)
             THEN Iteration(<<>>, <<Warning(i, "label")>>, "none")
        ELSE LET pdf == IF format_type \in {"pdf", "both"}
                        THEN <<Entry(i, product, ".pdf")>> ELSE <<>>
             IN  IF format_type \in {"png", "both"}
                 THEN IF png.kind = "png"
                      THEN Iteration(pdf \o <<Entry(i, product, ".png")>>,
                                     <<>>, png.kind)
                      ELSE Iteration(pdf, <<Warning(i, "png")>>, png.kind)
                 ELSE Iteration(pdf, <<>>, "none")

\* the selections of user_panel that reach create_batch_labels: two or
\* more distinct products of the sheet
RECURSIVE SelectionsOfLen(_)
SelectionsOfLen(n) ==
    IF n = 0 THEN {<<>>}
    ELSE {Append(s, q) : s \in SelectionsOfLen(n - 1), q \in DOMAIN df}

Selections ==
    {s \in UNION {SelectionsOfLen(n) : n \in 2 .. MaxBatch} :
        \A j, k \in 1 .. Len(s) : j # k => s[j] # s[k]}

\* the machines a batch is run on: no poppler at all, poppler on the PATH,
\* and poppler at Config.POPPLER_PATH only
BatchInstalls ==
    { [dirs |-> {}, which |-> NoPath],
      [dirs |-> {"/usr/bin"}, which |-> "/usr/bin"],
      [dirs |-> {POPPLER_PATH}, which |-> NoPath] }

\* one iteration of the loop of create_batch_labels
BatchProduct ==
    /\ bt_pc = "loop"
    /\ bt_i <= Len(bt_products)
    /\ \E convert \in {e \in PngEnvsOn(BatchInstalls) : e.pdf_ok} :

        LET it == process_product(bt_i, bt_products[bt_i], bt_format, convert)
        IN  /\ bt_zip' = bt_zip \o it.entries
            /\ bt_warnings' = bt_warnings \o it.warnings
            /\ bt_png' = Append(bt_png, it.png)
    /\ bt_i' = bt_i + 1
    /\ UNCHANGED <<bt_products, bt_format, bt_pc, bt_return>>
    /\ UNCHANGED <<value_vars, layout_vars, wrap_vars, render_vars, png_vars, session_vars>>

\* the end of the loop: the archive is closed and its bytes are returned
BatchReturn ==
    /\ bt_pc = "loop"
    /\ bt_i > Len(bt_products)
    /\ bt_pc' = "done"
    /\ bt_return' = "bytes"
    /\ UNCHANGED <<bt_products, bt_format, bt_i, bt_zip, bt_warnings, bt_png>>
    /\ UNCHANGED <<value_vars, layout_vars, wrap_vars, render_vars, png_vars, session_vars>>

\* -------------------------------------------------------------- Session
\* admin_panel, the sliders: lowest value, highest value, initial value,
\* under the key of the returned dict
Sliders_thick_from_zero ==
    [ width            |-> [min |-> 200, max |-> 400, value |-> 270],
      height           |-> [min |-> 300, max |-> 800, value |-> 370],
      font_header      |-> [min |-> 16,  max |-> 36,  value |-> 27],
      font_subheader   |-> [min |-> 8,   max |-> 20,  value |-> 13],
      font_nutrient    |-> [min |-> 6,   max |-> 18,  value |-> 10],
      font_footnote    |-> [min |-> 4,   max |-> 10,  value |-> 7],
      header_spacing   |-> [min |-> 0,   max |-> 5,   value |-> 2],
      line_thick       |-> [min |-> 0,   max |-> 5,   value |-> 3],
      line_thin        |-> [min |-> 0,   max |-> 2,   value |-> 0],
      nutrient_leading |-> [min |-> 10,  max |-> 30,  value |-> 17],
      thick_spacing    |-> [min |-> 0,   max |-> 15,  value |-> 8],
      thin_offset      |-> [min |-> 0,   max |-> 12,  value |-> 5],
      nutrients_gap    |-> [min |-> 5,   max |-> 50,  value |-> 33],
      footnote_start   |-> [min |-> 20,  max |-> 80,  value |-> 35],
      footnote_spacing |-> [min |-> 5,   max |-> 20,  value |-> 8],
      png_dpi          |-> [min |-> 150, max |-> 600, value |-> 300] ]

\* admin_panel, the sliders: lowest value, highest value, initial value,
\* under the key of the returned dict
Sliders ==
    [ width            |-> [min |-> 200, max |-> 400, value |-> 270],
      height           |-> [min |-> 300, max |-> 800, value |-> 370],
      font_header      |-> [min |-> 16,  max |-> 36,  value |-> 27],
      font_subheader   |-> [min |-> 8,   max |-> 20,  value |-> 13],
      font_nutrient    |-> [min |-> 6,   max |-> 18,  value |-> 10],
      font_footnote    |-> [min |-> 4,   max |-> 10,  value |-> 7],
      header_spacing   |-> [min |-> 0,   max |-> 5,   value |-> 2],
      line_thick       |-> [min |-> 1,   max |-> 5,   value |-> 3],
      line_thin        |-> [min |-> 0,   max |-> 2,   value |-> 0],
      nutrient_leading |-> [min |-> 10,  max |-> 30,  value |-> 17],
      thick_spacing    |-> [min |-> 0,   max |-> 15,  value |-> 8],
      thin_offset      |-> [min |-> 0,   max |-> 12,  value |-> 5],
      nutrients_gap    |-> [min |-> 5,   max |-> 50,  value |-> 33],
      footnote_start   |-> [min |-> 20,  max |-> 80,  value |-> 35],
      footnote_spacing |-> [min |-> 5,   max |-> 20,  value |-> 8],
      png_dpi          |-> [min |-> 150, max |-> 600, value |-> 300] ]

\* the values a slider is moved to: its ends and its initial value
SliderStops(name) ==
    {Sliders[name].min, Sliders[name].value, Sliders[name].max}

\* the sliders as they stand when the panel is first drawn
SliderDefaults == [name \in DOMAIN Sliders |-> Sliders[name].value]

\* the number of sliders that stand away from their initial value
Moved(sliders) ==
    Cardinality({name \in DOMAIN Sliders : sliders[name] # Sliders[name].value})

\* a value that may be None: None, or a tuple holding the value
None == <<>>
Some(v) == <<v>>

\* admin_panel, its return value: nothing after the bare return of a
\* failed connection, else the dict of the slider values
admin_panel(sliders, connection_ok) ==
    IF ~connection_ok THEN None ELSE Some(sliders)

\* user_panel(design_params): it returns early without data; else it
\* builds a generator on design_params and draws the selected product's
\* label, and create_pdf raises on p['width'] when the parameters are
\* None, which the except clause of user_panel reports
user_panel(design_params, connection_ok) ==
    IF ~connection_ok THEN "no_data"
    ELSE IF design_params = None THEN "error"
    ELSE "label"

\* main, the content area of a run in user mode
UserContent(connection_ok) ==
    /\ up_result' = user_panel(ss_design_params, connection_ok)
    /\ UNCHANGED <<ss_design_params, ad_sliders>>

\* main, the content area of a run in admin mode with the sliders at
\* sliders: the return value of admin_panel is stored, and the user view
\* is drawn with it
AdminContent(sliders, admin_ok, user_ok) ==
    /\ ad_sliders' = sliders
    /\ ss_design_params' = admin_panel(sliders, admin_ok)
    /\ up_result' = user_panel(admin_panel(sliders, admin_ok), user_ok)

\* main, the content area
Content(is_admin, sliders, admin_ok, user_ok) ==
    IF is_admin THEN AdminContent(sliders, admin_ok, user_ok)
    ELSE UserContent(user_ok)

OtherVarsUnchanged ==
    UNCHANGED <<value_vars, layout_vars, wrap_vars, render_vars, png_vars, batch_vars>>

\* a run of main after "Login as Admin": a valid password sets is_admin
\* and reruns the script; an invalid one shows an error and the run goes on
Login ==
    /\ ~ss_rerun /\ ~ss_is_admin
    /\ \E valid \in BOOLEAN, user_ok \in BOOLEAN :
        IF valid
        THEN /\ ss_is_admin' = TRUE
             /\ ss_rerun' = TRUE
             /\ UNCHANGED <<ss_design_params, ad_sliders, up_result>>
        ELSE /\ UNCHANGED <<ss_is_admin, ss_rerun>>
             /\ UserContent(user_ok)
    /\ OtherVarsUnchanged

\* a run of main after "Continue as User"
ContinueAsUser ==
    /\ ~ss_rerun /\ ~ss_is_admin
    /\ ss_is_admin' = FALSE
    /\ \E user_ok \in BOOLEAN : UserContent(user_ok)
    /\ UNCHANGED ss_rerun
    /\ OtherVarsUnchanged

\* a run of main after "Logout": the session goes back to user mode and
\* to the default parameters, and the script reruns.  The sliders are not
\* drawn in user mode and start from their initial values when drawn again.
Logout ==
    /\ ~ss_rerun /\ ss_is_admin
    /\ ss_is_admin' = FALSE
    /\ ss_design_params' = Some(get_default_design_params)
    /\ ss_rerun' = TRUE
    /\ ad_sliders' = SliderDefaults
    /\ UNCHANGED up_result
    /\ OtherVarsUnchanged

\* a run of main in admin mode after a slider was moved
MoveSlider ==
    /\ ~ss_rerun /\ ss_is_admin
    /\ \E name \in DOMAIN Sliders :
        \E v \in SliderStops(name) \ {ad_sliders[name]} :
            /\ Moved([ad_sliders EXCEPT ![name] = v]) <= MaxMoved
            /\ \E admin_ok \in BOOLEAN, user_ok \in BOOLEAN :
                AdminContent([ad_sliders EXCEPT ![name] = v], admin_ok, user_ok)
    /\ UNCHANGED <<ss_is_admin, ss_rerun>>
    /\ OtherVarsUnchanged

\* a run of main in admin mode after "Refresh Data", which is drawn when
\* the connection is up: the cache is cleared and the script reruns before
\* admin_panel returns
RefreshData ==
    /\ ~ss_rerun /\ ss_is_admin
    /\ ss_rerun' = TRUE
    /\ UNCHANGED <<ss_is_admin, ss_design_params, ad_sliders, up_result>>
    /\ OtherVarsUnchanged

\* a run of main that st.rerun() started, or that any other widget started
Run ==
    /\ ss_rerun' = FALSE
    /\ \E admin_ok \in BOOLEAN, user_ok \in BOOLEAN :
        Content(ss_is_admin, ad_sliders, admin_ok, user_ok)
    /\ UNCHANGED ss_is_admin
    /\ OtherVarsUnchanged

\* the session after the first run of main, in user mode
InitSession ==
    /\ ss_is_admin = FALSE
    /\ ss_design_params = Some(get_default_design_params)
    /\ ss_rerun = FALSE
    /\ ad_sliders = SliderDefaults
    /\ up_result = "label"

InitValue ==
    /\ fv_value = Num(0)
    /\ fv_result = format_value(Num(0))
    /\ dv_key = <<"Energy">>
    /\ dv_value = Num(0)
    /\ dv_result = calculate_percent_dv(<<"Energy">>, Num(0))
    /\ dv_prev = <<>>

InitLayout ==
    /\ lp = get_default_design_params
    /\ positions = _calculate_positions(get_default_design_params)

\* no call of wrap_text is pending
InitWrap ==
    /\ wt_text = <<>>
    /\ wt_max = 0
    /\ wt_pc = "done"
    /\ wt_lines = <<>>

\* no render is pending
InitRender ==
    /\ rd_row = SampleRow1
    /\ rd_p = get_default_design_params
    /\ rd_pc = "done"
    /\ rd_data = prepare_data(SampleRow1)
    /\ rd_out = _draw_nutrients(prepare_data(SampleRow1),
                    _calculate_positions(get_default_design_params),
                    get_default_design_params)

\* a label is about to be rendered, for a sample row and any parameter set
InitRenderCall ==
    /\ rd_row \in {SampleRow1, SampleRow2}
    /\ rd_p \in RenderParams
    /\ rd_pc = "call"
    /\ rd_data = NoData
    /\ rd_out = NoOutput

DefaultPngEnv ==
    [pdf_ok |-> TRUE, import_ok |-> TRUE,
     install |-> [dirs |-> {"/usr/bin"}, which |-> "/usr/bin"],
     try1 |-> Images("first"), try2 |-> Images("second")]

\* no conversion is pending
InitPng ==
    /\ png_env = DefaultPngEnv
    /\ png_pc = "done"
    /\ png_result = create_png(DefaultPngEnv)

\* create_png is about to be called, in any environment
InitPngCall ==
    /\ png_env \in PngEnvs
    /\ png_pc = "call"
    /\ png_result = Raised("none", NoError, <<>>)

\* no batch is running
InitBatch ==
    /\ bt_products = <<>>
    /\ bt_format = "pdf"
    /\ bt_i = 1
    /\ bt_zip = <<>>
    /\ bt_warnings = <<>>
    /\ bt_png = <<>>
    /\ bt_pc = "done"
    /\ bt_return = "none"

\* create_batch_labels has been called and is about to enter its loop
InitBatchCall ==
    /\ bt_products \in Selections
    /\ bt_format \in {"pdf", "png", "both"}
    /\ bt_i = 1
    /\ bt_zip = <<>>
    /\ bt_warnings = <<>>
    /\ bt_png = <<>>
    /\ bt_pc = "loop"
    /\ bt_return = "none"

\* a call of wrap_text is about to be made, with any text and width
InitWrapCall ==
    /\ wt_text \in WrapTexts
    /\ wt_max \in 0 .. MaxWrapWidth
    /\ wt_pc = "call"
    /\ wt_lines = <<>>

Init ==
    /\ InitValue
    /\ InitLayout
    /\ InitWrap
    /\ InitRender
    /\ InitPng
    /\ InitBatch
    /\ InitSession

NextFormat == FormatValue
SpecFormat == Init /\ [][NextFormat]_vars

NextPercent == CalculatePercentDV
SpecPercent == Init /\ [][NextPercent]_vars

NextLayout == CalculatePositions
SpecLayout == Init /\ [][NextLayout]_vars

NextWrap == WrapText
WrapInit ==
    InitValue /\ InitLayout /\ InitWrapCall /\ InitRender /\ InitPng /\ InitBatch
        /\ InitSession
SpecWrap == WrapInit /\ [][NextWrap]_vars

NextRender == EditSheet \/ Render

RenderInit ==
    InitValue /\ InitLayout /\ InitWrap /\ InitRenderCall /\ InitPng /\ InitBatch
        /\ InitSession
SpecRender == RenderInit /\ [][NextRender]_vars

NextPng == CreatePng
PngInit ==
    InitValue /\ InitLayout /\ InitWrap /\ InitRender /\ InitPngCall /\ InitBatch
        /\ InitSession
SpecPng == PngInit /\ [][NextPng]_vars

NextBatch == BatchProduct \/ BatchReturn
BatchInit ==
    InitValue /\ InitLayout /\ InitWrap /\ InitRender /\ InitPng /\ InitBatchCall
        /\ InitSession
SpecBatch == BatchInit /\ [][NextBatch]_vars

NextSession ==
    ContinueAsUser \/ Login \/ Logout \/ MoveSlider \/ RefreshData \/ Run
SpecSession == Init /\ [][NextSession]_vars



\* ------------------------------------------------- reading strings back
IsDigit(c) == \E d \in 1 .. 10 : DigitChars[d] = c
DigitVal(c) == (CHOOSE d \in 1 .. 10 : DigitChars[d] = c) - 1

RECURSIVE ParseNat(_)
\* the number a run of digits denotes
ParseNat(s) ==
    IF s = <<>> THEN 0
    ELSE ParseNat(SubSeq(s, 1, Len(s) - 1)) * 10 + DigitVal(s[Len(s)])

\* the number of tenths a string "[-]d..d" or "[-]d..d.d" denotes
ParseTenths(s) ==
    LET neg  == s[1] = "-"
        body == IF neg THEN Tail(s) ELSE s
        dot  == Len(body) >= 2 /\ body[Len(body) - 1] = "."
        mag  == IF dot
                THEN ParseNat(SubSeq(body, 1, Len(body) - 2)) * 10
                        + DigitVal(body[Len(body)])
                ELSE ParseNat(body) * 10
    IN  IF neg THEN -mag ELSE mag

\* a formatted amount: an optional sign, digits, optionally "." and one digit
WellFormedAmount(s) ==
    LET neg  == Len(s) > 0 /\ s[1] = "-"
        body == IF neg THEN Tail(s) ELSE s
        dot  == Len(body) >= 2 /\ body[Len(body) - 1] = "."
        int  == IF dot THEN SubSeq(body, 1, Len(body) - 2) ELSE body
    IN  /\ Len(int) >= 1
        /\ \A i \in 1 .. Len(int) : IsDigit(int[i])
        /\ dot => IsDigit(body[Len(body)])

\* the rank of a %DV string: "" below "<1%" below "N%" by N
PercentRank(s) ==
    IF s = <<>> THEN -1
    ELSE IF s[1] = "<" THEN 0
    ELSE ParseNat(SubSeq(s, 1, Len(s) - 1))

\* ===================================================== C6
\* the archive entries and the warnings of the j-th product of the batch
EntriesOf(j) == {k \in 1 .. Len(bt_zip) : bt_zip[k].index = j}
WarningsOf(j) == {k \in 1 .. Len(bt_warnings) : bt_warnings[k].index = j}
HasEntry(j, ext) == \E k \in EntriesOf(j) : bt_zip[k].ext = ext

\* the PDF of a product cannot be generated
pdf_fails(product) ==
    LET data == prepare_data(df[product])
    IN  ~data.ok \/ ~create_pdf_ok(data)

\* C6: for every requested format, a record whose PDF generation fails
\* contributes no archive entry and exactly one warning, and every other
\* record of the list is still processed and contributes its entries.
C6_FailedRecordSkipped ==
    /\ \A j \in 1 .. Len(bt_products) :
        (j < bt_i /\ pdf_fails(bt_products[j])) =>
            /\ EntriesOf(j) = {}
            /\ Cardinality(WarningsOf(j)) = 1
    /\ bt_pc = "done" =>
        /\ bt_i = Len(bt_products) + 1
        /\ Len(bt_png) = Len(bt_products)
        /\ \A j \in 1 .. Len(bt_products) :
            ~pdf_fails(bt_products[j]) =>
                /\ (bt_format \in {"pdf", "both"} => HasEntry(j, ".pdf"))
                /\ ((bt_format \in {"png", "both"} /\ bt_png[j] = "png")
                        => HasEntry(j, ".png"))

\* a batch in both formats whose first product has an empty footnote cell:
\* one warning for it, and the two files of the second product
C6_Witness ==
    /\ bt_pc = "done"
    /\ bt_format = "both"
    /\ bt_products = << <<"D", "_", "4">>, <<"B", "/", "2">> >>
    /\ bt_warnings = <<Warning(1, "label")>>
    /\ bt_zip = << [index |-> 2, name |-> <<"B", "2", ".pdf">>, ext |-> ".pdf"],
                   [index |-> 2, name |-> <<"B", "2", ".png">>, ext |-> ".png"] >>

\* ===================================================== C7
\* C7: with format "both", when PNG generation fails for a record a warning
\* is recorded, the PDF entry of that record is still in the archive, and the
\* batch goes on to process every remaining record.
C7_PngFailureKeepsPdf ==
    bt_format = "both" =>
        /\ \A j \in 1 .. Len(bt_png) :
            bt_png[j] \notin {"png", "none"} =>
                /\ \E k \in WarningsOf(j) : bt_warnings[k].kind = "png"
                /\ Cardinality(WarningsOf(j)) = 1
                /\ HasEntry(j, ".pdf")
                /\ ~HasEntry(j, ".png")
        /\ bt_pc = "done" =>
            /\ bt_i = Len(bt_products) + 1
            /\ \A j \in 1 .. Len(bt_products) :
                EntriesOf(j) # {} \/ WarningsOf(j) # {}

\* a batch in both formats: the conversion of the first product fails, its
\* PDF is in the archive, and the second product got both files
C7_Witness ==
    /\ bt_pc = "done"
    /\ bt_format = "both"
    /\ bt_products = << <<"A">>, <<"B", "/", "2">> >>
    /\ bt_png = <<"Unavailable", "png">>
    /\ bt_warnings = <<Warning(1, "png")>>
    /\ Len(bt_zip) = 3
    /\ bt_zip[1] = [index |-> 1, name |-> <<"A", ".pdf">>, ext |-> ".pdf"]

\* ===================================================== C8
\* C8: create_batch_labels signals BatchEmpty, an error outcome rather than
\* archive bytes, whenever no record of the batch produced an output entry.
C8_BatchEmpty ==
    (bt_pc = "done" /\ bt_zip = <<>>) => bt_return # "bytes"

\* ===================================================== C9
\* C9: create_png signals ConversionUnavailable exactly when the converter
\* backend cannot be located and ConversionFailed for every other converter
\* error, and in both cases the signalled error carries the message of the
\* underlying converter error.
C9_ErrorKinds ==
    (/\ png_pc = "done"
     /\ png_env.pdf_ok /\ png_env.import_ok
     /\ png_result.kind # "png") =>
        /\ png_result.kind \in {"Unavailable", "Failed"}

        /\ png_result.kind = "Unavailable" <=> png_result.error.cause = "not_located"
        /\ png_result.error.kind = "error"

\* ===================================================== C10

\* the rows drawn for a key
RowsOf(nutrient) ==
    {k \in 1 .. Len(rd_out.rows) : rd_out.rows[k].nutrient = nutrient}

IsSingleWord(line) ==
    /\ Len(line) >= 1
    /\ \A i \in 1 .. Len(line) : line[i] # " "

\* C5: each line returned by wrap_text has measured width <= max_width,
\* unless the line consists of exactly one word whose own width exceeds
\* max_width.
C5_WrapWidth ==
    wt_pc = "done" =>
        \A k \in 1 .. Len(wt_lines) :
            \/ stringWidth(wt_lines[k], get_default_design_params.font_footnote)
                    <= wt_max * 1000
            \/ IsSingleWord(wt_lines[k])

\* a text wrapped into a line of two words that fits, a single word that
\* is too wide on a line of its own, and a last line
C5_Witness ==
    /\ wt_pc = "done"
    /\ wt_text = <<"i", " ", "i", " ", "W", " ", "i">>
    /\ wt_max = 6
    /\ wt_lines = << <<"i", " ", "i">>, <<"W">>, <<"i">> >>

\* ===================================================== C1
\* every numeric field of a parameter set is positive
AllPositive(p) == \A f \in DOMAIN p : p[f] > 0

\* C1: for every parameter set whose numeric fields are all positive the
\* anchors are strictly decreasing in the order header > header_sep >
\* serving > serving_note > serving_sep > energy > energy_sep >
\* nutrients_start.
C1_AnchorsDecreasing ==
    AllPositive(lp) =>
        /\ positions.header > positions.header_sep
        /\ positions.header_sep > positions.serving
        /\ positions.serving > positions.serving_note
        /\ positions.serving_note > positions.serving_sep
        /\ positions.serving_sep > positions.energy
        /\ positions.energy > positions.energy_sep
        /\ positions.energy_sep > positions.nutrients_start

\* a positive parameter set with the smallest spacings, laid out
C1_Witness ==
    /\ AllPositive(lp)
    /\ lp.thick_spacing = 1 /\ lp.nutrients_gap = 1 /\ lp.height = 370
    /\ lp.font_header = 27
    /\ positions.header = 333 /\ positions.nutrients_start = 272

\* ===================================================== C2
\* C2: for a fixed key calculate_percent_dv is monotonic non-decreasing in
\* the amount ("" below "<1%" below "N%" by N): of two calls with the same
\* key, the one with the smaller amount does not rank above the other.
PercentDvMonotonic ==
    \A i \in 1 .. Len(dv_prev) :
        LET a == dv_prev[i].value
            ra == PercentRank(dv_prev[i].result)
            rb == PercentRank(dv_result)
        IN  (~isna(a) /\ ~isna(dv_value)) =>
                /\ (a.n <= dv_value.n => ra <= rb)
                /\ (dv_value.n <= a.n => rb <= ra)

\* C2 as stated: monotonic, and the empty string for every key that is not
\* a key of the daily-value reference table.
C2_AsStated ==
    /\ PercentDvMonotonic
    /\ (dv_key \notin DOMAIN DAILY_VALUES => dv_result = <<>>)

\* C2 amended: monotonic, and the empty string for every key whose
\* whitespace-stripped form is not a key of the reference table.
C2_PercentDv ==
    /\ PercentDvMonotonic
    /\ (strip(dv_key) \notin DOMAIN DAILY_VALUES => dv_result = <<>>)

\* two calls for one key in the table with increasing amounts and strictly
\* increasing results, the first below one percent
C2_Witness ==
    /\ dv_key = <<" ", " ", "Saturated Fat">>
    /\ Len(dv_prev) = 1
    /\ dv_prev[1].value = Num(6) /\ dv_prev[1].result = <<"<", "1", "%">>
    /\ dv_value = Num(48) /\ dv_result = <<"8", "%">>

\* ===================================================== C3
\* C3 as stated: key "Sodium" with amount 2300 gives "100%" and with amount
\* 10 gives "<1%".
C3_AsStated ==
    dv_key = <<"Sodium">> =>
        /\ (dv_value = Num(2300 * Scale) => dv_result = <<"1", "0", "0", "%">>)
        /\ (dv_value = Num(10 * Scale) => dv_result = <<"<", "1", "%">>)

\* C3 amended: key "Sodium(mg)", the key of the reference table, with amount
\* 2300 gives "100%" and with amount 10 gives "<1%".
C3_SodiumExamples ==
    dv_key = <<"Sodium", "(mg)">> =>
        /\ (dv_value = Num(2300 * Scale) => dv_result = <<"1", "0", "0", "%">>)
        /\ (dv_value = Num(10 * Scale) => dv_result = <<"<", "1", "%">>)

\* both calls of the example were made, one after the other
C3_Witness ==
    /\ dv_key = <<"Sodium", "(mg)">>
    /\ dv_prev = <<[value |-> Num(10 * Scale), result |-> <<"<", "1", "%">>]>>
    /\ dv_value = Num(2300 * Scale)
    /\ dv_result = <<"1", "0", "0", "%">>

\* ===================================================== C4
\* C4: format_value returns "0" for an absent/not-a-number or zero amount,
\* the integer form for a whole amount, and otherwise the amount to one
\* decimal place (the nearest tenth) with a trailing zero and a trailing
\* decimal point stripped; the result never has a trailing zero after a
\* decimal point and never ends in a decimal point.
C4_FormatValue ==
    LET v == fv_value
        r == fv_result
        dotted == \E i \in 1 .. Len(r) : r[i] = "."
    IN  /\ Len(r) >= 1
        /\ r[Len(r)] # "."
        /\ (dotted => r[Len(r)] # "0")
        /\ WellFormedAmount(r)
        /\ ((isna(v) \/ v.n = 0) => r = <<"0">>)
        /\ ((~isna(v) /\ v.n # 0 /\ v.n % Scale = 0) =>
                (~dotted /\ ParseTenths(r) * Scale = 10 * v.n))
        /\ ((~isna(v) /\ v.n % Scale # 0) =>
                2 * Abs(ParseTenths(r) * Scale - 10 * v.n) <= Scale)

\* an amount that is not whole but rounds to "10.0", returned as "10"
C4_Witness ==
    /\ fv_value = Num(10 * Scale + 1)
    /\ fv_result = <<"1", "0">>

\* ===================================================== C11
\* C11: one call of create_png makes at most two conversion attempts: the
\* first with the preferred or auto-detected path, and a second with the
\* system-default lookup (poppler_path None) only if the first attempt
\* raised and its path was not empty; if an attempt returns an image the
\* image is returned, and if both attempts raise, the error of the first
\* attempt is the one reported.
C11_TwoAttempts ==
    (png_pc = "done" /\ png_env.pdf_ok /\ png_env.import_ok) =>
        LET attempts == png_result.attempts
            path     == first_path(png_env.install)
            second   == png_env.try1.kind = "error" /\ path # NoPath
        IN  /\ Len(attempts) \in {1, 2}
            /\ attempts[1] = path
            /\ Len(attempts) = 2 <=> second
            /\ second => attempts[2] = NoPath
            /\ png_env.try1.kind = "images" => png_result.kind = "png"
            /\ (second /\ png_env.try2.kind = "images") => png_result.kind = "png"
            /\ (second /\ png_env.try2.kind = "error") =>
                    /\ png_result.kind \in {"Unavailable", "Failed"}
                    /\ png_result.error = png_env.try1
            /\ (png_env.try1.kind = "error" /\ ~second) =>
                    /\ png_result.kind \in {"Unavailable", "Failed"}
                    /\ png_result.error = png_env.try1

\* the configured path does not hold the converter, the one found on the
\* PATH is tried and fails, the lookup on the PATH fails too, and the error
\* of the first attempt is reported
C11_Witness ==
    /\ png_pc = "done"
    /\ png_env.pdf_ok /\ png_env.import_ok
    /\ png_env.install = [dirs |-> {OtherDir}, which |-> OtherDir]
    /\ png_env.try1 = Error("other", FALSE, "first")
    /\ png_env.try2 = Error("other", TRUE, "second")
    /\ png_result = Raised("Failed", Error("other", FALSE, "first"), <<OtherDir, NoPath>>)

\* ===================================================== C12

\* the last two rows of the fixed nutrient order
LastTwoOfOrder ==
    { nutrient_order[Len(nutrient_order) - 1], nutrient_order[Len(nutrient_order)] }

RowsAtLeading ==
    \A k \in 1 .. Len(rd_out.rows) :
        rd_out.rows[k].y =
            _calculate_positions(rd_p).nutrients_start - (k - 1) * rd_p.nutrient_leading

\* C13 as stated: the k-th drawn row is placed at nutrients_start -
\* k * nutrient_leading, and the closing thick rule is drawn at the final
\* cursor position, nutrients_start - n * nutrient_leading for n rows.
C13_AsStated ==
    (rd_pc # "call" /\ rd_data.ok) =>
        /\ RowsAtLeading
        /\ rd_out.final_rule_y = rd_out.y_pos
        /\ rd_out.final_rule_y =
             _calculate_positions(rd_p).nutrients_start
                - Len(rd_out.rows) * rd_p.nutrient_leading

\* C13: the k-th drawn row is placed at nutrients_start - k *
\* nutrient_leading, the cursor ends at nutrients_start - n *
\* nutrient_leading after n rows, and the closing thick rule is drawn
\* nutrient_leading - thin_offset above the final cursor, that is
\* thin_offset under the last row.
C13_RowPositions ==
    (rd_pc # "call" /\ rd_data.ok) =>
        LET start == _calculate_positions(rd_p).nutrients_start
            n     == Len(rd_out.rows)
        IN  /\ RowsAtLeading
            /\ rd_out.y_pos = start - n * rd_p.nutrient_leading
            /\ rd_out.final_rule_y = rd_out.y_pos + rd_p.nutrient_leading - rd_p.thin_offset
            /\ n > 0 => rd_out.final_rule_y = rd_out.rows[n].y - rd_p.thin_offset

\* the first sample with the default parameters: ten rows from 226 down to
\* 73, the cursor ends at 56 and the closing rule is drawn at 68
C13_Witness ==
    /\ rd_pc = "done"
    /\ rd_row = SampleRow1
    /\ rd_p = get_default_design_params
    /\ Len(rd_out.rows) = 10
    /\ rd_out.rows[1].y = 226
    /\ rd_out.rows[10].y = 73
    /\ rd_out.y_pos = 56
    /\ rd_out.final_rule_y = 68

\* ===================================================== C14

\* the display name of a key: without its indentation and without "(mg)"
DisplayName(nutrient) ==
    lstrip(SelectSeq(nutrient, LAMBDA tok : tok # "(mg)"), " ")

\* the indentation of a key: its leading spaces
Indentation(nutrient) ==
    SubSeq(nutrient, 1, Len(nutrient) - Len(lstrip(nutrient, " ")))

\* the unit suffix of a display name
UnitSuffix(name) ==
    IF name \in { <<"Cholesterol">>, <<"Sodium">>, <<"Calcium">>, <<"Iron">>,
                  <<"Potassium">> }
    THEN "mg"
    ELSE IF name = <<"Vitamin D">> THEN "mcg"
    ELSE "g"

\* C14 as stated: for every drawn row the left label is the display name
\* with its indentation stripped, one space, the formatted value and the
\* unit suffix: "mg" for Cholesterol, Sodium, Calcium, Iron and
\* Potassium, "mcg" for Vitamin D and "g" for every other nutrient.
C14_AsStated ==
    (rd_pc # "call" /\ rd_data.ok) =>
        \A k \in 1 .. Len(rd_out.rows) :
            LET row  == rd_out.rows[k]
                name == DisplayName(row.nutrient)
            IN  row.label =
                    name \o <<" ">> \o format_value(rd_data.values[row.nutrient])
                         \o <<UnitSuffix(name)>>

\* C14: for every drawn row the left label is the key's indentation (no,
\* two or three leading spaces), the display name, one space, the
\* formatted value and the unit suffix: "mg" for Cholesterol, Sodium,
\* Calcium, Iron and Potassium, "mcg" for Vitamin D and "g" for every
\* other nutrient.
C14_Labels ==
    (rd_pc # "call" /\ rd_data.ok) =>
        \A k \in 1 .. Len(rd_out.rows) :
            LET row  == rd_out.rows[k]
                name == DisplayName(row.nutrient)
            IN  /\ Len(Indentation(row.nutrient)) \in {0, 2, 3}
                /\ row.label =
                    Indentation(row.nutrient) \o name \o <<" ">>
                        \o format_value(rd_data.values[row.nutrient])
                        \o <<UnitSuffix(name)>>

\* the second sample: Saturated Fat keeps its two spaces, Sodium loses
\* "(mg)" and has the unit mg, Vitamin D has the unit mcg
C14_Witness ==
    /\ rd_pc = "done"
    /\ rd_row = SampleRow2
    /\ rd_out.rows[2].label = <<" ", " ", "Saturated Fat", " ", "4", ".", "5", "g">>
    /\ rd_out.rows[5].label = <<"Sodium", " ", "6", "5", "0", "mg">>
    /\ rd_out.rows[11].label = <<"Vitamin D", " ", "2", "mcg">>

\* ===================================================== C15

\* the indentation level of a key: 0 for no leading space, 1 for two, 2
\* for three
Level(nutrient) ==
    CASE Len(Indentation(nutrient)) = 0 -> 0
      [] Len(Indentation(nutrient)) = 2 -> 1
      [] OTHER -> 2

\* the key has a reference value in the daily-value table
HasReference(nutrient) == lstrip(nutrient, " ") \in DOMAIN DAILY_VALUES

\* rows of level 0 are bold, rows of level 1 and 2 regular
WeightByLevel ==
    \A k \in 1 .. Len(rd_out.rows) :
        rd_out.rows[k].font =
            IF Level(rd_out.rows[k].nutrient) = 0 THEN "Helvetica-Bold" ELSE "Helvetica"

\* C15 as stated: a %DV string is drawn on a row only if the row's key has
\* indentation level 0 or 1 and has a reference value; no row of level 2
\* (Trans Fat, Added Sugars) ever shows a %DV; rows of level 0 are bold,
\* rows of level 1 and 2 regular.
C15_AsStated ==
    (rd_pc # "call" /\ rd_data.ok) =>
        /\ \A k \in 1 .. Len(rd_out.rows) :
              LET row == rd_out.rows[k]
              IN  /\ row.percent # <<>> =>
                        Level(row.nutrient) \in {0, 1} /\ HasReference(row.nutrient)
                  /\ Level(row.nutrient) = 2 => row.percent = <<>>
        /\ WeightByLevel

\* C15: a %DV string is drawn on a row exactly if the row's key, without
\* its indentation, has a reference value and the amount is positive,
\* whatever the indentation level: Trans Fat and Total Sugars never show
\* one, Added Sugars (level 2) shows one for every positive amount; rows
\* of level 0 are bold, rows of level 1 and 2 regular.
C15_PercentAndWeight ==
    (rd_pc # "call" /\ rd_data.ok) =>
        /\ \A k \in 1 .. Len(rd_out.rows) :
              LET row == rd_out.rows[k]
              IN  /\ row.percent # <<>> <=>
                        /\ HasReference(row.nutrient)
                        /\ rd_data.values[row.nutrient].n > 0
                  /\ row.nutrient \in { <<" ", " ", " ", "Trans Fat">>,
                                        <<" ", " ", "Total Sugars">> }
                        => row.percent = <<>>
        /\ WeightByLevel

\* the first sample: Added Sugars, level 2 and regular, 2 g of 50 g, shows
\* "4%"; Trans Fat shows nothing; Total Fat is bold
C15_Witness ==
    /\ rd_pc = "done"
    /\ rd_row = SampleRow1
    /\ rd_out.rows[9].nutrient = <<" ", " ", " ", "Added Sugars">>
    /\ rd_out.rows[9].percent = <<"4", "%">>
    /\ rd_out.rows[9].font = "Helvetica"
    /\ rd_out.rows[3].nutrient = <<" ", " ", " ", "Trans Fat">>
    /\ rd_out.rows[3].percent = <<>>
    /\ rd_out.rows[1].font = "Helvetica-Bold"

\* ===================================================== C16

\* the parameter sets the renderer can be given: what the session holds
\* and user_panel passes to NutritionLabelGenerator
GivenParams == {ss_design_params[i] : i \in DOMAIN ss_design_params}

\* the fields that can be zero: line_thin, which is 0 by default, and the
\* three whose slider starts at 0
ZeroAllowed == {"line_thin", "header_spacing", "thick_spacing", "thin_offset"}

\* C16 as stated: every LayoutParams the renderer can be given, the
\* defaults and every set the admin panel produces from its control
\* ranges, has all numeric fields strictly positive.
C16_AsStated ==
    \A p \in GivenParams : \A name \in DOMAIN p : p[name] > 0

\* C16: every LayoutParams the renderer can be given has no negative
\* field, and every field but line_thin, header_spacing, thick_spacing
\* and thin_offset is strictly positive; those four can be zero.
C16_NonNegative ==
    \A p \in GivenParams :
        \A name \in DOMAIN p :
            /\ p[name] >= 0
            /\ name \notin ZeroAllowed => p[name] > 0

\* an administrator has pulled the thin-line offset and the header letter
\* spacing down to zero, and the session holds that set
C16_Witness ==
    /\ ss_is_admin
    /\ ss_design_params # None
    /\ ss_design_params[1].thin_offset = 0
    /\ ss_design_params[1].header_spacing = 0
    /\ ss_design_params[1].line_thin = 0
    /\ ss_design_params[1].line_thick = 3
    /\ up_result = "label"

\* ===================================================== C17

\* outside admin mode the session holds the defaults: they are replaced
\* only in admin mode, and logout puts them back
DefaultsOutsideAdmin ==
    ~ss_is_admin => ss_design_params = Some(get_default_design_params)

\* C17: after any sequence of script runs with login, logout,
\* continue-as-user and connection successes or failures, the
\* design_params of the session is a complete parameter set, never None;
\* it equals the defaults until an administrator replaces it, it is only
\* replaced in admin mode, and logout resets it to the defaults.
C17_ParamsNeverNone ==
    /\ ss_design_params # None
    /\ DefaultsOutsideAdmin








====
